---- MODULE Spec2Model ----
(***************************************************************************)
(* Model of cykas' public-key pipeline:                                    *)
(*   src/util/ecdsa.rs        derive_public_key (OpenSSL FFI)              *)
(*   src/util/check.rs        checksum / double_sha256                     *)
(*   src/protocol/public_key.rs  PublicKey                                 *)
(* Byte strings are sequences over 0..255.  The OpenSSL primitives the     *)
(* code calls (SHA256, RIPEMD160, the secp256k1 group) are external; they  *)
(* are modelled by small stand-ins of the same shape: digests of the same  *)
(* output length that depend on every input byte, and the curve            *)
(* y^2 = x^3 + 7 over a small prime field with a base point of prime       *)
(* order.  PrivateKey, Address and util::base58 are not among the sources  *)
(* and are modelled from the written specification.                        *)
(***************************************************************************)
EXTENDS Integers, Sequences, FiniteSets, TLC

VARIABLES
    pc,           \* position inside derive_public_key, "idle" outside it
    caller,       \* who called derive_public_key
    private_key,  \* derive_public_key's argument
    priv_key,     \* local: handle of the scalar BIGNUM
    curve,        \* local: handle of the EC_GROUP
    ctx,          \* local: handle of the BN_CTX
    pub_key,      \* local: handle of the result EC_POINT
    result,       \* local: the output buffer
    octlen,       \* value returned by EC_POINT_point2oct (the code drops it)
    heap,         \* native objects allocated so far, by handle
    uaf,          \* a native object was used after it had been freed
    key,          \* the PublicKey the program holds, as an Option
    key_src,      \* the bytes that key was built from by PublicKey::new
    ret,          \* the last value returned to the program
    history,      \* the completed derivations, in order
    ck_data,      \* checksum: the input slice
    ck_out,       \* checksum: the returned bytes
    dsha_out,     \* double_sha256: the returned bytes
    b58_in,       \* base58: bytes to encode
    b58_text,     \* base58: encoded text
    b58_out       \* base58: decoded bytes

vars == <<pc, caller, private_key, priv_key, curve, ctx, pub_key, result, octlen,
          heap, uaf, key, key_src, ret, history, ck_data, ck_out, dsha_out,
          b58_in, b58_text, b58_out>>

deriveVars == <<pc, caller, private_key, priv_key, curve, ctx, pub_key, result,
                octlen, heap, uaf, history>>
checkVars == <<ck_data, ck_out, dsha_out>>
b58Vars == <<b58_in, b58_text, b58_out>>

\* Option<T>: None is the empty sequence, Some(x) the one-element sequence
None == <<>>
Some(x) == <<x>>
Unwrap(o) == o[1]

\* a null pointer
NoHandle == 0

(* ------------------------------ bounds -------------------------------- *)
MaxCalls == 3        \* derivations per run
MaxScalar == 2       \* scalars 0..MaxScalar are tried, and the group order
MaxDataLen == 3      \* longest checksum input
MaxB58Len == 3       \* longest base58 input
MaxFill == 7         \* fill bytes 0..MaxFill of the PublicKey::new inputs

(* ------------------------------ bytes --------------------------------- *)
\* Vec::from_elem(n, b)
FromElem(n, b) == [i \in 1..n |-> b]

\* big-endian n-byte encoding of v < 2^31, the way a coordinate is padded
\* to the field's byte length
BigEndian(v, n) ==
    [i \in 1..n |-> IF n - i > 3 THEN 0 ELSE (v \div (256 ^ (n - i))) % 256]

(* ------------------- external digests (stand-ins) --------------------- *)
\* One output byte: every input byte and its position count.  The sum is
\* taken over the halves of lo..hi.
RECURSIVE Absorb(_, _, _, _)
Absorb(data, lo, hi, salt) ==
    IF lo > hi THEN 0
    ELSE IF lo = hi THEN ((data[lo] + lo) * (data[lo] + salt)) % 251
    ELSE LET mid == (lo + hi) \div 2
         IN  (Absorb(data, lo, mid, salt) + Absorb(data, mid + 1, hi, salt)) % 251

\* Four running sums over the whole input, differently weighted.
Lanes(data, iv) ==
    << Absorb(data, 1, Len(data), iv + 1), Absorb(data, 1, Len(data), iv + 2),
       Absorb(data, 1, Len(data), iv + 3), Absorb(data, 1, Len(data), iv + 4) >>

\* An n-byte digest of data; iv tells the hash functions apart.  Each output
\* byte mixes two of the sums with its own position and the input's length.
Digest(data, n, iv) ==
    LET lanes == Lanes(data, iv)
    IN  [j \in 1..n |->
            (lanes[(j % 4) + 1] * (j + 1) + lanes[((j \div 4) % 4) + 1]
               + 5 * j + Len(data)) % 251]

\* openssl::crypto::hash::hash(SHA256, data): 32 bytes
SHA256(data) == Digest(data, 32, 1)

\* RIPEMD160: 20 bytes
RIPEMD160(data) == Digest(data, 20, 2)

(* ------------------------- src/util/check.rs -------------------------- *)
double_sha256_once(data) == SHA256(data)

double_sha256(data) ==
    LET first_hash == SHA256(data)
    IN  SHA256(first_hash)

checksum_from_byte_1(data) ==
    LET double_hash == double_sha256(data)
    IN  SubSeq(double_hash, 2, 5)

checksum(data) ==
    LET double_hash == double_sha256(data)
    IN  SubSeq(double_hash, 1, 4)

(* --------------------- Address (from the specification) --------------- *)
version_byte == 0

hash160(data) == RIPEMD160(SHA256(data))

Address_from_public_key(pk) ==
    LET payload == <<version_byte>> \o hash160(pk.data)
        full == payload \o checksum(payload)
    IN  [data |-> full]

(* -------------------- src/protocol/public_key.rs ---------------------- *)
LENGTH == 65

is_valid_length_only(self) == Len(self.data) = LENGTH

is_valid(self) ==
    /\ Len(self.data) = LENGTH
    /\ self.data[1] = 4

PublicKey_new_tagged(data) ==
    LET k == [data |-> IF data = <<>> THEN data ELSE [data EXCEPT ![1] = 4]]
    IN  IF is_valid(k) THEN Some(k) ELSE None

PublicKey_new(data) ==
    LET k == [data |-> data]
    IN  IF is_valid(k) THEN Some(k) ELSE None

get_data(self) == self.data

to_address(self) == Address_from_public_key(self)

(* ------------------- PrivateKey (from the specification) -------------- *)
PrivateKey_new(bytes) ==
    IF Len(bytes) = 32 THEN Some([data |-> bytes]) ELSE None

(* --------------- OpenSSL's curve arithmetic (stand-in) ---------------- *)
\* y^2 = x^3 + 7 over GF(FieldP); (BaseX, BaseY) generates the whole group,
\* whose order GroupN is prime, as for secp256k1.
NID_secp256k1 == 714
FieldP == 43
GroupN == 31
BaseX == 2
BaseY == 12
POINT_CONVERSION_UNCOMPRESSED == 4

Infinity == [inf |-> TRUE, x |-> 0, y |-> 0]
Affine(x, y) == [inf |-> FALSE, x |-> x, y |-> y]
BasePoint == Affine(BaseX, BaseY)

FieldInv(a) == CHOOSE i \in 1..(FieldP - 1) : (a * i) % FieldP = 1

PointAdd(A, B) ==
    IF A.inf THEN B
    ELSE IF B.inf THEN A
    ELSE IF A.x = B.x /\ (A.y + B.y) % FieldP = 0 THEN Infinity
    ELSE LET lam == IF A = B
                    THEN (3 * A.x * A.x * FieldInv((2 * A.y) % FieldP)) % FieldP
                    ELSE ((B.y - A.y + FieldP)
                            * FieldInv((B.x - A.x + FieldP) % FieldP)) % FieldP
             x3 == (lam * lam + 2 * FieldP - A.x - B.x) % FieldP
             y3 == (lam * (A.x - x3 + FieldP) + FieldP - A.y) % FieldP
         IN  Affine(x3, y3)

RECURSIVE PointMul(_, _)
PointMul(k, A) ==
    IF k = 0 THEN Infinity
    ELSE LET half == PointMul(k \div 2, A)
             dbl == PointAdd(half, half)
         IN  IF k % 2 = 1 THEN PointAdd(dbl, A) ELSE dbl

\* 256^e modulo the group order, by squaring
RECURSIVE PowMod(_)
PowMod(e) ==
    IF e = 0 THEN 1
    ELSE LET h == PowMod(e \div 2)
         IN  IF e % 2 = 1 THEN (h * h * 256) % GroupN ELSE (h * h) % GroupN

\* The big-endian integer a BIGNUM holds, reduced by the group order (all
\* that EC_POINT_mul's result depends on), summed over the halves of lo..hi.
RECURSIVE BnModOrder(_, _, _)
BnModOrder(bytes, lo, hi) ==
    IF lo > hi THEN 0
    ELSE IF lo = hi THEN (bytes[lo] * PowMod(Len(bytes) - lo)) % GroupN
    ELSE LET mid == (lo + hi) \div 2
         IN  (BnModOrder(bytes, lo, mid) + BnModOrder(bytes, mid + 1, hi)) % GroupN

\* EC_POINT_mul(group, r, n, NULL, NULL, ctx): r := n * G
EC_POINT_mul(n) == PointMul(BnModOrder(n, 1, Len(n)), BasePoint)

\* EC_POINT_point2oct(group, p, form, buf, len, ctx): the buffer after the
\* call and the number of bytes written.  The point at infinity is encoded
\* as the single byte 0.
EC_POINT_point2oct(p, form, buf) ==
    IF p.inf
    THEN [buf |-> [buf EXCEPT ![1] = 0], n |-> 1]
    ELSE [buf |-> <<form>> \o BigEndian(p.x, 32) \o BigEndian(p.y, 32)
                    \o SubSeq(buf, 66, Len(buf)),
          n |-> 65]

(* ----------------------- the native heap ------------------------------ *)
\* BN_new, EC_GROUP_new_by_curve_name, BN_CTX_new, EC_POINT_new: a fresh
\* object at the next handle
Alloc(h, kind, val) == Append(h, [kind |-> kind, val |-> val, frees |-> 0])

\* BN_free, BN_CTX_free, EC_POINT_free
Free(h, p) == [h EXCEPT ![p].frees = @ + 1]

\* using the object behind p is a use after free once it has been freed
Stale(p) == heap[p].frees > 0

Live(h) == {p \in DOMAIN h : h[p].frees = 0}

(* ------------------------------ inputs -------------------------------- *)
ScalarBytes(k) == BigEndian(k, 32)

\* 32-byte keys: the scalars 0..MaxScalar and the group order
Scalars == {ScalarBytes(k) : k \in 0..MaxScalar} \cup {ScalarBytes(GroupN)}

\* slices that are no 32-byte key
BadKeys == {<<>>, FromElem(31, 1), FromElem(33, 1)}

\* raw public-key candidates for PublicKey::new: a first byte, then a fill
\* byte up to each length around LENGTH; and the empty slice
NewInputs ==
    { <<t>> \o FromElem(n - 1, f) :
        t \in {0, 4, 5, 255}, n \in {1, LENGTH - 1, LENGTH, LENGTH + 1}, f \in 0..MaxFill }
    \cup { <<>> }

\* inputs of checksum and double_sha256: short slices, and the 21 bytes of
\* the tests' vector
TestVector ==
    <<0, 1, 9, 102, 119, 96, 6, 149, 61, 85, 103, 67, 158, 94, 57, 248, 106, 13,
      39, 59, 238>>

RECURSIVE SeqsUpTo(_, _)
SeqsUpTo(S, n) ==
    IF n = 0 THEN { <<>> }
    ELSE LET shorter == SeqsUpTo(S, n - 1)
         IN  shorter \cup { Append(q, b) : q \in shorter, b \in S }

DataInputs == SeqsUpTo({0, 1, 255}, MaxDataLen) \cup { TestVector }

\* inputs of the base58 codec
B58Inputs == SeqsUpTo({0, 1, 57, 58, 255}, MaxB58Len)

(* --------------- src/util/ecdsa.rs: derive_public_key ----------------- *)
\* line 82: let mut result = Vec::from_elem(65, 0u8)
result_buffer_stale ==
    IF history = <<>> THEN FromElem(65, 0) ELSE history[Len(history)].val

result_buffer == FromElem(65, 0)

\* line 84: *result.index_mut(&0) = 0x04
set_marker_skipped(buf) == buf

set_marker(buf) == [buf EXCEPT ![1] = 4]

\* entry: the call binds the argument
Enter(who, bytes) ==
    /\ pc = "idle"
    /\ Len(history) < MaxCalls
    /\ pc' = "L66"
    /\ caller' = who
    /\ private_key' = bytes
    /\ ret' = [op |-> "none", arg |-> <<>>, val |-> <<>>, ok |-> FALSE]
    /\ UNCHANGED <<priv_key, curve, ctx, pub_key, result, octlen, heap, uaf,
                   key, key_src, history>>
    /\ UNCHANGED <<checkVars, b58Vars>>

\* a direct call of the public function, with any slice
CallDerive == \E bytes \in Scalars \cup BadKeys : Enter("derive_public_key", bytes)

\* PublicKey::from_private_key(&PrivateKey): the key has passed PrivateKey::new
CallFromPrivateKey ==
    \E bytes \in Scalars \cup BadKeys :
        /\ PrivateKey_new(bytes) # None
        /\ Enter("from_private_key", get_data(Unwrap(PrivateKey_new(bytes))))

\* line 66: assert!(private_key.len() == 32u)
L66 ==
    /\ pc = "L66"
    /\ pc' = IF Len(private_key) = 32 THEN "L69" ELSE "panicked"
    /\ UNCHANGED <<caller, private_key, priv_key, curve, ctx, pub_key, result,
                   octlen, heap, uaf, key, key_src, ret, history>>
    /\ UNCHANGED <<checkVars, b58Vars>>

\* line 69: priv_key = BN_bin2bn(ptr, len, BN_new())
L69 ==
    /\ pc = "L69"
    /\ heap' = Alloc(heap, "BIGNUM", private_key)
    /\ priv_key' = Len(heap) + 1
    /\ pc' = "L72"
    /\ UNCHANGED <<caller, private_key, curve, ctx, pub_key, result, octlen,
                   uaf, key, key_src, ret, history>>
    /\ UNCHANGED <<checkVars, b58Vars>>

\* line 72: curve = EC_GROUP_new_by_curve_name(NID_secp256k1)
L72 ==
    /\ pc = "L72"
    /\ heap' = Alloc(heap, "EC_GROUP", <<NID_secp256k1>>)
    /\ curve' = Len(heap) + 1
    /\ pc' = "L75"
    /\ UNCHANGED <<caller, private_key, priv_key, ctx, pub_key, result, octlen,
                   uaf, key, key_src, ret, history>>
    /\ UNCHANGED <<checkVars, b58Vars>>

\* line 75: ctx = BN_CTX_new()
L75 ==
    /\ pc = "L75"
    /\ heap' = Alloc(heap, "BN_CTX", <<>>)
    /\ ctx' = Len(heap) + 1
    /\ pc' = "L78"
    /\ UNCHANGED <<caller, private_key, priv_key, curve, pub_key, result, octlen,
                   uaf, key, key_src, ret, history>>
    /\ UNCHANGED <<checkVars, b58Vars>>

\* line 78: pub_key = EC_POINT_new(curve); a new point is the point at infinity
L78 ==
    /\ pc = "L78"
    /\ heap' = Alloc(heap, "EC_POINT", Infinity)
    /\ pub_key' = Len(heap) + 1
    /\ uaf' = (uaf \/ Stale(curve))
    /\ pc' = "L79"
    /\ UNCHANGED <<caller, private_key, priv_key, curve, ctx, result, octlen,
                   key, key_src, ret, history>>
    /\ UNCHANGED <<checkVars, b58Vars>>

\* line 79: EC_POINT_mul(curve, pub_key, priv_key, null, null, ctx)
L79 ==
    /\ pc = "L79"
    /\ heap' = [heap EXCEPT ![pub_key].val = EC_POINT_mul(heap[priv_key].val)]
    /\ uaf' = (uaf \/ Stale(curve) \/ Stale(pub_key) \/ Stale(priv_key) \/ Stale(ctx))
    /\ pc' = "L82"
    /\ UNCHANGED <<caller, private_key, priv_key, curve, ctx, pub_key, result,
                   octlen, key, key_src, ret, history>>
    /\ UNCHANGED <<checkVars, b58Vars>>

\* line 82: let mut result = Vec::from_elem(65, 0u8)
L82 ==
    /\ pc = "L82"
    /\ result' = result_buffer
    /\ pc' = "L83"
    /\ UNCHANGED <<caller, private_key, priv_key, curve, ctx, pub_key, octlen,
                   heap, uaf, key, key_src, ret, history>>
    /\ UNCHANGED <<checkVars, b58Vars>>

\* line 83: EC_POINT_point2oct(curve, pub_key, UNCOMPRESSED, buf, 65, ctx);
\* the returned length is not looked at
L83 ==
    /\ pc = "L83"
    /\ LET w == EC_POINT_point2oct(heap[pub_key].val,
                                   POINT_CONVERSION_UNCOMPRESSED, result)
       IN  /\ result' = w.buf
           /\ octlen' = w.n
    /\ uaf' = (uaf \/ Stale(curve) \/ Stale(pub_key) \/ Stale(ctx))
    /\ pc' = "L84"
    /\ UNCHANGED <<caller, private_key, priv_key, curve, ctx, pub_key, heap,
                   key, key_src, ret, history>>
    /\ UNCHANGED <<checkVars, b58Vars>>

\* line 84: *result.index_mut(&0) = 0x04
L84 ==
    /\ pc = "L84"
    /\ result' = set_marker(result)
    /\ pc' = "L87"
    /\ UNCHANGED <<caller, private_key, priv_key, curve, ctx, pub_key, octlen,
                   heap, uaf, key, key_src, ret, history>>
    /\ UNCHANGED <<checkVars, b58Vars>>

\* line 87: BN_CTX_free(ctx)
L87 ==
    /\ pc = "L87"
    /\ heap' = Free(heap, ctx)
    /\ pc' = "L88"
    /\ UNCHANGED <<caller, private_key, priv_key, curve, ctx, pub_key, result,
                   octlen, uaf, key, key_src, ret, history>>
    /\ UNCHANGED <<checkVars, b58Vars>>

\* line 88: EC_POINT_free(pub_key)
L88 ==
    /\ pc = "L88"
    /\ heap' = Free(heap, pub_key)
    /\ pc' = "L89"
    /\ UNCHANGED <<caller, private_key, priv_key, curve, ctx, pub_key, result,
                   octlen, uaf, key, key_src, ret, history>>
    /\ UNCHANGED <<checkVars, b58Vars>>

\* line 89: BN_free(priv_key)
L89 ==
    /\ pc = "L89"
    /\ heap' = Free(heap, priv_key)
    /\ pc' = "L91"
    /\ UNCHANGED <<caller, private_key, priv_key, curve, ctx, pub_key, result,
                   octlen, uaf, key, key_src, ret, history>>
    /\ UNCHANGED <<checkVars, b58Vars>>

\* line 91: result is returned and the locals go out of scope;
\* public_key.rs line 29: from_private_key wraps it in a PublicKey
L91 ==
    /\ pc = "L91"
    /\ pc' = "idle"
    /\ ret' = [op |-> caller, arg |-> private_key, val |-> result, ok |-> TRUE]
    /\ history' = Append(history, [k |-> private_key, val |-> result])
    /\ IF caller = "from_private_key"
       THEN key' = Some([data |-> result]) /\ key_src' = None
       ELSE UNCHANGED <<key, key_src>>
    /\ caller' = "none"
    /\ private_key' = <<>>
    /\ priv_key' = NoHandle
    /\ curve' = NoHandle
    /\ ctx' = NoHandle
    /\ pub_key' = NoHandle
    /\ result' = <<>>
    /\ octlen' = 0
    /\ UNCHANGED <<heap, uaf>>
    /\ UNCHANGED <<checkVars, b58Vars>>

(* ------------- src/protocol/public_key.rs: the operations ------------- *)
\* PublicKey::new(data)
CallNew ==
    \E d \in NewInputs :
        /\ pc = "idle"
        /\ LET k == PublicKey_new(d)
           IN  /\ key' = k
               /\ key_src' = IF k = None THEN None ELSE Some(d)
               /\ ret' = [op |-> "new", arg |-> d,
                          val |-> IF k = None THEN <<>> ELSE Unwrap(k).data,
                          ok |-> k # None]
        /\ UNCHANGED <<deriveVars, checkVars, b58Vars>>

\* key.get_data()
CallGetData ==
    /\ pc = "idle"
    /\ key # None
    /\ ret' = [op |-> "get_data", arg |-> Unwrap(key).data,
               val |-> get_data(Unwrap(key)), ok |-> TRUE]
    /\ UNCHANGED <<key, key_src, deriveVars, checkVars, b58Vars>>

\* key.to_address()
CallToAddress ==
    /\ pc = "idle"
    /\ key # None
    /\ ret' = [op |-> "to_address", arg |-> Unwrap(key).data,
               val |-> to_address(Unwrap(key)).data, ok |-> TRUE]
    /\ UNCHANGED <<key, key_src, deriveVars, checkVars, b58Vars>>

(* ------------- src/util/check.rs: the operations ---------------------- *)
\* checksum(data)
CallChecksum ==
    /\ ck_out = None
    /\ ck_out' = Some([arg |-> ck_data, val |-> checksum(ck_data)])
    /\ UNCHANGED <<ck_data, dsha_out, deriveVars, key, key_src, ret, b58Vars>>

\* double_sha256(data)
CallDoubleSha256 ==
    /\ dsha_out = None
    /\ dsha_out' = Some([arg |-> ck_data, val |-> double_sha256(ck_data)])
    /\ UNCHANGED <<ck_data, ck_out, deriveVars, key, key_src, ret, b58Vars>>

(* ------------- util::base58 (from the specification) ------------------ *)
Alphabet ==
    << "1", "2", "3", "4", "5", "6", "7", "8", "9",
       "A", "B", "C", "D", "E", "F", "G", "H", "J", "K", "L", "M", "N", "P", "Q",
       "R", "S", "T", "U", "V", "W", "X", "Y", "Z",
       "a", "b", "c", "d", "e", "f", "g", "h", "i", "j", "k", "m", "n", "o", "p",
       "q", "r", "s", "t", "u", "v", "w", "x", "y", "z" >>

Reverse(q) == [i \in 1..Len(q) |-> q[Len(q) + 1 - i]]

\* the number of leading elements of q equal to z
LeadingCount(q, z) ==
    IF \A i \in 1..Len(q) : q[i] = z THEN Len(q)
    ELSE (CHOOSE i \in 1..Len(q) : q[i] # z /\ \A j \in 1..(i - 1) : q[j] = z) - 1

IsZero(bytes) == \A i \in 1..Len(bytes) : bytes[i] = 0

\* long division of the big-endian integer bytes by 58, from byte i on with
\* remainder r carried in: the quotient's bytes from i on, and the remainder
RECURSIVE DivMod58(_, _, _)
DivMod58(bytes, i, r) ==
    IF i > Len(bytes) THEN [q |-> <<>>, r |-> r]
    ELSE LET v == r * 256 + bytes[i]
             rest == DivMod58(bytes, i + 1, v % 58)
         IN  [q |-> <<v \div 58>> \o rest.q, r |-> rest.r]

\* the base-58 digits of the integer, least significant first
RECURSIVE DigitsLE(_)
DigitsLE(bytes) ==
    IF IsZero(bytes) THEN <<>>
    ELSE LET dm == DivMod58(bytes, 1, 0)
         IN  <<dm.r>> \o DigitsLE(dm.q)

Base58Encode_no_zeros(bytes) ==
    LET digits == Reverse(DigitsLE(bytes))
    IN  [i \in 1..Len(digits) |-> Alphabet[digits[i] + 1]]

Base58Encode(bytes) ==
    LET zeros == LeadingCount(bytes, 0)
        digits == Reverse(DigitsLE(bytes))
    IN  FromElem(zeros, Alphabet[1])
          \o [i \in 1..Len(digits) |-> Alphabet[digits[i] + 1]]

\* bytes * 58 + carry on the big-endian integer bytes, one byte longer when
\* the top byte overflows
RECURSIVE MulAdd58(_, _)
MulAdd58(bytes, carry) ==
    IF bytes = <<>> THEN (IF carry = 0 THEN <<>> ELSE <<carry>>)
    ELSE LET v == bytes[Len(bytes)] * 58 + carry
         IN  Append(MulAdd58(SubSeq(bytes, 1, Len(bytes) - 1), v \div 256), v % 256)

\* the integer with the base-58 digits d[1..n], most significant first, as
\* its minimal big-endian bytes (none for 0)
RECURSIVE FromDigits(_, _)
FromDigits(d, n) ==
    IF n = 0 THEN <<>> ELSE MulAdd58(FromDigits(d, n - 1), d[n])

InAlphabet(c) == \E i \in 1..Len(Alphabet) : Alphabet[i] = c
IndexOf(c) == (CHOOSE i \in 1..Len(Alphabet) : Alphabet[i] = c) - 1

\* None when a character is not of the alphabet
Base58Decode(text) ==
    IF \E i \in 1..Len(text) : ~InAlphabet(text[i]) THEN None
    ELSE LET d == [i \in 1..Len(text) |-> IndexOf(text[i])]
             ones == LeadingCount(text, Alphabet[1])
         IN  Some(FromElem(ones, 0) \o FromDigits(d, Len(d)))

CallEncode ==
    /\ b58_text = None
    /\ b58_text' = Some(Base58Encode(b58_in))
    /\ UNCHANGED <<b58_in, b58_out, deriveVars, key, key_src, ret, checkVars>>

CallDecode ==
    /\ b58_text # None
    /\ b58_out = None
    /\ b58_out' = Some(Base58Decode(Unwrap(b58_text)))
    /\ UNCHANGED <<b58_in, b58_text, deriveVars, key, key_src, ret, checkVars>>

(* --------------------------- specification ---------------------------- *)
InitDerive ==
    /\ pc = "idle"
    /\ caller = "none"
    /\ private_key = <<>>
    /\ priv_key = NoHandle
    /\ curve = NoHandle
    /\ ctx = NoHandle
    /\ pub_key = NoHandle
    /\ result = <<>>
    /\ octlen = 0
    /\ heap = <<>>
    /\ uaf = FALSE
    /\ history = <<>>

InitKey ==
    /\ key = None
    /\ key_src = None
    /\ ret = [op |-> "none", arg |-> <<>>, val |-> <<>>, ok |-> FALSE]

InitCheckIdle ==
    /\ ck_data = <<>>
    /\ ck_out = None
    /\ dsha_out = None

InitB58Idle ==
    /\ b58_in = <<>>
    /\ b58_text = None
    /\ b58_out = None

Init == InitDerive /\ InitKey /\ InitCheckIdle /\ InitB58Idle

Next ==
    \/ CallDerive
    \/ CallFromPrivateKey
    \/ L66
    \/ L69
    \/ L72
    \/ L75
    \/ L78
    \/ L79
    \/ L82
    \/ L83
    \/ L84
    \/ L87
    \/ L88
    \/ L89
    \/ L91
    \/ CallGetData
    \/ CallToAddress

\* the derivation pipeline and the operations on the keys it makes
Spec == Init /\ [][Next]_vars

NextKey ==
    \/ CallNew
    \/ CallGetData
    \/ CallToAddress

\* PublicKey::new and the operations on the keys it accepts
SpecKey == Init /\ [][NextKey]_vars

InitCheck ==
    /\ InitDerive
    /\ InitKey
    /\ InitB58Idle
    /\ ck_data \in DataInputs
    /\ ck_out = None
    /\ dsha_out = None

NextCheck ==
    \/ CallChecksum
    \/ CallDoubleSha256

\* checksum and double_sha256 over every input
SpecCheck == InitCheck /\ [][NextCheck]_vars

InitB58 ==
    /\ InitDerive
    /\ InitKey
    /\ InitCheckIdle
    /\ b58_in \in B58Inputs
    /\ b58_text = None
    /\ b58_out = None

NextB58 ==
    \/ CallEncode
    \/ CallDecode

\* the base58 codec over every input
SpecB58 == InitB58 /\ [][NextB58]_vars

(* ------------------------------ claims -------------------------------- *)
\* C1: PublicKey::new(d) returns a key exactly when d has 65 bytes and its
\* first byte is 0x04, whatever the other 64 bytes are; every other input,
\* the empty one included, gets None as an ordinary return value.
C1_NewAcceptsIffShape ==
    ret.op = "new" =>
        /\ ret.ok <=> (Len(ret.arg) = 65 /\ ret.arg[1] = 4)
        /\ (key # None) <=> ret.ok
        /\ pc = "idle"

\* C1 witness: 0x04 followed by 64 zero bytes, which is no point of the
\* curve (0 # 0 + 7), has been accepted.
C1_Witness ==
    /\ ret.op = "new"
    /\ ret.ok
    /\ ret.arg = <<4>> \o FromElem(64, 0)
    /\ (0 * 0) % FieldP # (0 * 0 * 0 + 7) % FieldP

\* C2: from_private_key on a validated PrivateKey never panics, and the
\* bytes of the key it returns are 65 bytes starting with 0x04, so that
\* PublicKey::new accepts them.
C2_FromPrivateKeyValid ==
    /\ caller = "from_private_key" => pc # "panicked"
    /\ ret.op = "from_private_key" =>
          /\ key # None
          /\ get_data(Unwrap(key)) = ret.val
          /\ Len(ret.val) = 65
          /\ ret.val[1] = 4
          /\ PublicKey_new(get_data(Unwrap(key))) = key

\* C2 witness: the key of scalar 1 is the base point, uncompressed.
C2_Witness ==
    /\ ret.op = "from_private_key"
    /\ ret.arg = ScalarBytes(1)
    /\ ret.val = <<4>> \o BigEndian(BaseX, 32) \o BigEndian(BaseY, 32)

\* C3: no validation failure of the pipeline ends the process, and none is
\* turned into a well-formed-looking result: derive_public_key never
\* panics, and never returns when the point encoding did not give 65 bytes.
C3_FailuresAreTyped ==
    /\ pc # "panicked"
    /\ pc = "L91" => octlen = 65

\* C4: deriving from the scalar 0 does not return a 65-byte public key.
C4_ZeroScalarIsError ==
    ~ ( /\ ret.op \in {"derive_public_key", "from_private_key"}
        /\ ret.arg = ScalarBytes(0)
        /\ Len(ret.val) = 65 )

\* C5: checksum(data) is exactly 4 bytes, the first 4 bytes of
\* SHA256(SHA256(data)) and so of double_sha256(data), for every input, and
\* the input is as it was.
C5_ChecksumIsDoubleShaPrefix ==
    ck_out # None =>
        LET r == Unwrap(ck_out)
        IN  /\ Len(r.val) = 4
            /\ r.val = SubSeq(SHA256(SHA256(r.arg)), 1, 4)
            /\ ck_data = r.arg
            /\ dsha_out # None =>
                  /\ Len(Unwrap(dsha_out).val) = 32
                  /\ r.val = SubSeq(Unwrap(dsha_out).val, 1, 4)

\* C5 witness: both functions have run on the empty input.
C5_Witness ==
    /\ ck_out # None
    /\ dsha_out # None
    /\ ck_data = <<>>

C7_Deterministic ==
    \A i, j \in DOMAIN history :
        history[i].k = history[j].k =>
            /\ history[i].val = history[j].val
            /\ Len(history[i].val) = 65

\* C7 witness: a scalar derived twice with another scalar in between.
C7_Witness ==
    \E i, j, l \in DOMAIN history :
        /\ i < j
        /\ j < l
        /\ history[i].k = history[l].k
        /\ history[j].k # history[i].k

\* C8: decoding the encoding of b gives b back, and the text starts with
\* one '1' for each leading zero byte of b.
C8_RoundTrip ==
    /\ b58_text # None =>
          LeadingCount(Unwrap(b58_text), "1") = LeadingCount(b58_in, 0)
    /\ b58_out # None => Unwrap(b58_out) = Some(b58_in)

\* C8 witness: two leading zero bytes went through the round trip.
C8_Witness ==
    /\ b58_out # None
    /\ b58_in = <<0, 0, 1>>
    /\ Unwrap(b58_text) = <<"1", "1", "2">>

\* C9: a key PublicKey::new accepted holds the bytes it was given, get_data
\* returns them, and they stay the same under get_data and to_address.
C9_KeyHoldsInput ==
    /\ (key # None /\ key_src # None) => Unwrap(key).data = Unwrap(key_src)
    /\ (ret.op = "new" /\ ret.ok) => ret.val = ret.arg
    /\ (ret.op = "get_data" /\ key_src # None) => ret.val = Unwrap(key_src)

\* C9 witness: get_data has run on an accepted key.
C9_Witness ==
    /\ ret.op = "get_data"
    /\ key_src # None
    /\ Unwrap(key_src) = FromElem(65, 4)

\* C10: when derive_public_key has returned, every native object it
\* allocated has been freed exactly once, so that none is live, and none
\* was used after its free.
C10_AllFreedOnce ==
    /\ ~uaf
    /\ \A p \in DOMAIN heap : heap[p].frees <= 1
    /\ pc = "idle" =>
          /\ \A p \in DOMAIN heap : heap[p].frees = 1
          /\ Live(heap) = {}

====
